---- MODULE Spec2Model ----
(***************************************************************************)
(* Model of the smart-home core:                                           *)
(*   - hardware/bedroom_automation.py : BedroomAutomation (dual ultrasonic *)
(*     occupancy machine, RC-LDR brightness, exit countdown thread)        *)
(*   - hardware/room_lights.py : RoomLightsController (button gestures,    *)
(*     single-press timers, light channels, cleanup)                       *)
(*   - tests/sensor_tuning.py : stats_from_list, recommend_threshold       *)
(*                                                                         *)
(* Time is discrete; one unit is half a second.  Every duration of the     *)
(* source that matters is a whole number of units (1.5 s window = 3,       *)
(* 1.0 s sequence interval = 2, time.sleep(1) = 2); the 0.1 s poll sleep   *)
(* and the 1 s error backoff of the loop are lower bounds on the time to   *)
(* the next tick, which the model leaves free (MaxEvents caps the rate).   *)
(* Timestamps are kept relative to the clock: an event stores              *)
(* age = now - e['time'], a sleeping thread stores the time it still has   *)
(* to sleep.  Sleeps are lower bounds (a thread may wake late).            *)
(* The 0.4 s wait of a single-press Timer is shorter than a unit: the end  *)
(* of the wait is a step of the Timer thread that may come at any time.    *)
(***************************************************************************)
EXTENDS Integers, Sequences, FiniteSets, Bags, TLC

VARIABLES
    state,               \* self.state : RoomState
    last_sensor_events,  \* self.last_sensor_events, each [age, us1, us2]
    exit_timer,          \* self.exit_timer : NoTimer (None) or the countdown
                         \* thread it references, [pc, i, sleep]
    orphans,             \* bag of the live countdown threads that
                         \* self.exit_timer no longer references
    lock,                \* self.lock : "free" or "timer" (held by a countdown)
    running,             \* self.running
    loop_pc,             \* the _automation_loop thread: "none", "loop", or
                         \* "done" (it has left the loop after a stop)
    debug_due,           \* now - self.last_debug_output > 3.0
    exiting_for,         \* history: time since the latest OCCUPIED ->
                         \* EXITING transition, while EXITING (else 0)
    driven,              \* history, kept when driven.on: driven.flags[j]
                         \* tells whether the pair of snapshots j-1, j of
                         \* the window has driven a transition
    stopping,            \* stop() and the loop threads it left behind:
                         \* join is the time left of the bounded join of the
                         \* latest stop(), old the number of live loop
                         \* threads of earlier start() calls
    led_states,          \* light channel states (the actuator)
    cmd,                 \* actuator command issued by the latest step
    pending,             \* self._pending_single_timers : room -> the Timer
                         \* thread recorded for it, or NoGTimer (no entry)
    gtimers,             \* bag of the live Timer threads that the map does
                         \* not record (cancelled, or their entry deleted)
    press_pc,            \* the button-callback thread: "idle", or the room
                         \* whose _on_button_press saw a live timer
    cleanup_pc,          \* cleanup(): "none" (not called), "closing" (timers
                         \* cancelled and lights switched off, devices still
                         \* open), "done" (devices closed, it has returned)
    tally,               \* history, kept when tally.on: the press edges
                         \* handled and the single-press and double-press
                         \* actions performed so far
    inp,                 \* a call of one function on its own: its arguments
    out,                 \* and what it returned
    calls                \* history: the actuator calls made so far, each
                         \* [pre, post, ret, raised] (channel states before
                         \* and after, what it returned, whether it raised)

occVars == <<state, last_sensor_events, exit_timer, orphans, lock, running,
             loop_pc, debug_due, exiting_for, driven, stopping>>
gestVars == <<pending, gtimers, press_pc, cleanup_pc, tally>>
funVars == <<inp, out, calls>>
vars == <<occVars, led_states, cmd, gestVars, funVars>>

----------------------------------------------------------------------------
(* Bounds of the model *)

\* iterations of the countdown loop (EXIT_DELAY seconds, scaled down)
ExitDelay == 1
\* most events the window holds (caps the poll rate per window duration)
MaxEvents == 2
\* most countdown threads alive at once
MaxTimers == 2
\* most single-press Timer threads alive at once
MaxGTimers == 2
\* most snapshots in a window handed to the detectors on their own
MaxWindow == 3
\* most times in a row an actuator call is repeated with the same arguments
MaxCalls == 2
\* most samples in each list handed to the threshold tuning
MaxSamples == 2
\* most events the window holds while the pairs that drove a transition are
\* tracked
MaxTracked == 3
\* most press edges handled while the gestures are counted
MaxPresses == 3
\* most poll-loop threads alive at once
MaxLoops == 2

(* Program constants, in units of half a second where they are durations *)

WindowDuration == 3
MaxSequenceInterval == 2
CountdownSleep == 2
\* thread.join(timeout=2.0) of stop()
JoinTimeout == 4
US1_DISTANCE_THRESHOLD == 35
US2_DISTANCE_THRESHOLD == 35
LDR_SAMPLE_COUNT == 7
\* DEFAULT_LDR_THRESHOLD_SECONDS, in hundredths of a second
LdrThreshold == 12

None == 0

\* what read_ultrasonic_distance returns on a timeout or a read error
TimeoutDistance == 500

\* the physical range of the sensor, as the test script filters its readings
MinPlausibleDistance == 2
MaxPlausibleDistance == 400

Rooms == {"bedroom", "hall"}

\* distances a range read can return: a person under the sensor, and the 500
\* sentinel of a timeout or read error
Distances == {30, TimeoutDistance}

\* readings the echo timing can give, taken as they come: also one too short
\* and one too long to be real, and one of the empty doorway
RangeReadings == Distances \cup {1, 42, 450}

\* what the N RC-timing samples of one brightness measurement can be, in
\* hundredths of a second (None = timed out)
LdrSamplings ==
    { [i \in 1..LDR_SAMPLE_COUNT |-> v] : v \in {None, 4, 60} }

----------------------------------------------------------------------------
(* History of the current EXITING episode: its age after a step during     *)
(* which `elapsed` units of time pass, counted up to the whole exit delay  *)

ExitingClock(elapsed) ==
    exiting_for' =
        IF state' = "EXITING" /\ state = "EXITING"
        THEN IF exiting_for + elapsed < ExitDelay * CountdownSleep
             THEN exiting_for + elapsed
             ELSE ExitDelay * CountdownSleep
        ELSE 0

----------------------------------------------------------------------------
(* Range sensors *)

\* variant: the comparison with the threshold is turned round
read_us1_sensor_inverted(d) == d > US1_DISTANCE_THRESHOLD

read_us1_sensor(d) == d < US1_DISTANCE_THRESHOLD
read_us2_sensor(d) == d < US2_DISTANCE_THRESHOLD

(* Brightness.  measure_ldr_median drops the timed-out samples; with none  *)
(* left it returns None, otherwise it evaluates statistics.median, and the *)
(* module never imports statistics: the call raises NameError.             *)
measure_ldr_median(samples) ==
    LET vals == SelectSeq(samples, LAMBDA v : v # None)
    IN  IF vals = <<>> THEN [raised |-> FALSE, med |-> None]
        ELSE [raised |-> TRUE, med |-> None]

\* variant: a failed measurement counts as bright
is_room_dark_fail_bright(samples) ==
    LET m == measure_ldr_median(samples)
    IN  IF m.raised THEN [raised |-> TRUE, is_dark |-> FALSE]
        ELSE IF m.med = None THEN [raised |-> FALSE, is_dark |-> FALSE]
        ELSE [raised |-> FALSE, is_dark |-> m.med > LdrThreshold]

is_room_dark(samples) ==
    LET m == measure_ldr_median(samples)
    IN  IF m.raised THEN [raised |-> TRUE, is_dark |-> FALSE]
        ELSE IF m.med = None THEN [raised |-> FALSE, is_dark |-> TRUE]
        ELSE [raised |-> FALSE, is_dark |-> m.med > LdrThreshold]

----------------------------------------------------------------------------
(* Event window and sequence detection *)

\* variant: the filter keeps a snapshot that is exactly window-duration old
AppendEvent_keeps_boundary(events, us1, us2) ==
    SelectSeq(Append(events, [age |-> 0, us1 |-> us1, us2 |-> us2]),
              LAMBDA e : e.age <= WindowDuration)

AppendEvent(events, us1, us2) ==
    SelectSeq(Append(events, [age |-> 0, us1 |-> us1, us2 |-> us2]),
              LAMBDA e : e.age < WindowDuration)

\* variant: any later snapshot may complete the order, not only the next one
_detect_entrance_sequence_any_pair(events) ==
    /\ Len(events) >= 2
    /\ \E i \in 1..(Len(events) - 1) : \E j \in (i + 1)..Len(events) :
          /\ events[i].us2
          /\ events[j].us1
          /\ events[i].age - events[j].age < MaxSequenceInterval

_detect_entrance_sequence(events) ==
    /\ Len(events) >= 2
    /\ \E i \in 1..(Len(events) - 1) :
          /\ events[i].us2
          /\ events[i + 1].us1
          /\ events[i].age - events[i + 1].age < MaxSequenceInterval

_detect_exit_sequence(events) ==
    /\ Len(events) >= 2
    /\ \E i \in 1..(Len(events) - 1) :
          /\ events[i].us1
          /\ events[i + 1].us2
          /\ events[i].age - events[i + 1].age < MaxSequenceInterval

\* the adjacent pair i, i+1 of the window is in entrance / exit order
EntrancePair(w, i) ==
    /\ w[i].us2
    /\ w[i + 1].us1
    /\ w[i].age - w[i + 1].age < MaxSequenceInterval

ExitPair(w, i) ==
    /\ w[i].us1
    /\ w[i + 1].us2
    /\ w[i].age - w[i + 1].age < MaxSequenceInterval

\* the pair at which the detector's loop returns True
FirstEntrancePair(w) ==
    CHOOSE i \in 1..(Len(w) - 1) :
        EntrancePair(w, i) /\ \A j \in 1..(i - 1) : ~EntrancePair(w, j)

FirstExitPair(w) ==
    CHOOSE i \in 1..(Len(w) - 1) :
        ExitPair(w, i) /\ \A j \in 1..(i - 1) : ~ExitPair(w, j)

\* the flags of the snapshots of window w2, which a tick made of window w
\* (dropping snapshots from the front, adding one at the end)
Aligned(flags, w, w2) ==
    SubSeq(flags \o <<FALSE>>, Len(w) + 2 - Len(w2), Len(w) + 1)

\* history of a tick: the pair that drove its transition is flagged
Track ==
    driven' =
        IF ~driven.on THEN driven
        ELSE LET w2 == last_sensor_events'
                 f0 == Aligned(driven.flags, last_sensor_events, w2)
             IN  IF state = "EMPTY" /\ state' = "OCCUPIED"
                 THEN [driven EXCEPT !.flags =
                          [f0 EXCEPT ![FirstEntrancePair(w2) + 1] = TRUE]]
                 ELSE IF state = "OCCUPIED" /\ state' = "EXITING"
                 THEN [driven EXCEPT !.flags =
                          [f0 EXCEPT ![FirstExitPair(w2) + 1] = TRUE]]
                 ELSE [driven EXCEPT !.flags = f0]

\* most events the window holds (caps the poll rate)
WindowCap == IF driven.on THEN MaxTracked ELSE MaxEvents

----------------------------------------------------------------------------
(* Countdown threads *)

\* pc of a countdown thread: "sleep" (in time.sleep(1) of iteration i),
\* "acquire" (waiting for the lock), "locked" (in the with block), "return"
\* (the function has returned, the thread is still alive), "dead"
NoTimer == [pc |-> "none", i |-> 0, sleep |-> 0]
DeadTimer == [pc |-> "dead", i |-> 0, sleep |-> 0]
NewTimer == [pc |-> "sleep", i |-> 0, sleep |-> CountdownSleep]

is_alive(t) == t.pc \notin {"none", "dead"}

\* the live countdown threads, each with whether self.exit_timer references it
Threads ==
    {<<TRUE, exit_timer>>} \cup {<<FALSE, t>> : t \in BagToSet(orphans)}

LiveTimers ==
    BagCardinality(orphans) + (IF is_alive(exit_timer) THEN 1 ELSE 0)

\* thread th goes on as t2
Become(th, t2) ==
    IF th[1]
    THEN exit_timer' = t2 /\ UNCHANGED orphans
    ELSE /\ orphans' = (orphans (-) SetToBag({th[2]}))
                           (+) (IF is_alive(t2) THEN SetToBag({t2}) ELSE EmptyBag)
         /\ UNCHANGED exit_timer

_start_exit_timer ==
    IF exit_timer # NoTimer /\ is_alive(exit_timer)
    THEN UNCHANGED <<exit_timer, orphans>>
    ELSE /\ LiveTimers < MaxTimers
         /\ exit_timer' = NewTimer
         /\ UNCHANGED orphans

\* self.exit_timer = None: the thread itself is not stopped
_cancel_exit_timer ==
    /\ exit_timer' = NoTimer
    /\ orphans' = IF is_alive(exit_timer)
                  THEN orphans (+) SetToBag({exit_timer}) ELSE orphans

_turn_on_bedroom_light ==
    /\ led_states' = [led_states EXCEPT !["bedroom"] = TRUE]
    /\ cmd' = "on"

_turn_off_bedroom_light ==
    /\ led_states' = [led_states EXCEPT !["bedroom"] = FALSE]
    /\ cmd' = "off"

NoLightAction == UNCHANGED led_states /\ cmd' = "none"

----------------------------------------------------------------------------
(* State handlers, run by _check_occupancy while it holds the lock.  They  *)
(* read the window of this tick, last_sensor_events'.                      *)

\* variant: the handler also takes the exit order for an entrance
_handle_empty_state_any_order(ldr) ==
    IF \/ _detect_entrance_sequence(last_sensor_events')
       \/ _detect_exit_sequence(last_sensor_events')
    THEN IF is_room_dark(ldr).raised
         THEN UNCHANGED <<state, exit_timer, orphans>> /\ NoLightAction
         ELSE /\ IF is_room_dark(ldr).is_dark
                 THEN _turn_on_bedroom_light
                 ELSE NoLightAction
              /\ state' = "OCCUPIED"
              /\ UNCHANGED <<exit_timer, orphans>>
    ELSE UNCHANGED <<state, exit_timer, orphans>> /\ NoLightAction

_handle_empty_state(ldr) ==
    IF _detect_entrance_sequence(last_sensor_events')
    THEN IF is_room_dark(ldr).raised
         THEN UNCHANGED <<state, exit_timer, orphans>> /\ NoLightAction
         ELSE /\ IF is_room_dark(ldr).is_dark
                 THEN _turn_on_bedroom_light
                 ELSE NoLightAction
              /\ state' = "OCCUPIED"
              /\ UNCHANGED <<exit_timer, orphans>>
    ELSE UNCHANGED <<state, exit_timer, orphans>> /\ NoLightAction

_handle_occupied_state ==
    IF _detect_exit_sequence(last_sensor_events')
    THEN /\ state' = "EXITING"
         /\ _start_exit_timer
         /\ NoLightAction
    ELSE UNCHANGED <<state, exit_timer, orphans>> /\ NoLightAction

_handle_exiting_state(us1_detected) ==
    IF us1_detected
    THEN /\ _cancel_exit_timer
         /\ state' = "OCCUPIED"
         /\ NoLightAction
    ELSE UNCHANGED <<state, exit_timer, orphans>> /\ NoLightAction

----------------------------------------------------------------------------
(* One poll tick: _check_occupancy(), then the loop's sleep.               *)
(*   d2, d1 : the two range reads;  dbg : the samples of the periodic      *)
(*   debug report's brightness read;  ldr : those of the entrance's        *)

DebugDue == debug_due

\* the debug report raises (NameError) before the state machine is reached
DebugRaises(dbg) == DebugDue /\ is_room_dark(dbg).raised

StateMachine(us1_detected, ldr) ==
    /\ lock = "free"
    /\ lock' = "free"
    /\ CASE state = "EMPTY" -> _handle_empty_state(ldr)
         [] state = "OCCUPIED" -> _handle_occupied_state
         [] state = "EXITING" -> _handle_exiting_state(us1_detected)

_check_occupancy(d2, d1, dbg, ldr) ==
    LET us2_detected == read_us2_sensor(d2)
        us1_detected == read_us1_sensor(d1)
    IN  /\ last_sensor_events' =
               AppendEvent(last_sensor_events, us1_detected, us2_detected)
        /\ Len(last_sensor_events') <= WindowCap
        /\ IF DebugRaises(dbg)
           THEN /\ UNCHANGED <<state, exit_timer, orphans, lock,
                               debug_due>>
                /\ NoLightAction
           ELSE /\ debug_due' = FALSE
                /\ StateMachine(us1_detected, ldr)

\* the tick with these range reads and debug samples reaches the brightness
\* read of _handle_empty_state
EntranceRead(d2, d1, dbg) ==
    /\ state = "EMPTY"
    /\ ~DebugRaises(dbg)
    /\ _detect_entrance_sequence(
           AppendEvent(last_sensor_events, read_us1_sensor(d1),
                       read_us2_sensor(d2)))

\* variant: the loop body without the try/except, an exception ends the thread
_automation_loop_no_except(d2, d1, dbg, ldr) ==
    /\ loop_pc = "loop"
    /\ running
    /\ _check_occupancy(d2, d1, dbg, ldr)
    /\ ExitingClock(0)
    /\ Track
    /\ loop_pc' = IF DebugRaises(dbg)
                     \/ (EntranceRead(d2, d1, dbg) /\ is_room_dark(ldr).raised)
                  THEN "none" ELSE loop_pc
    /\ UNCHANGED <<running, stopping, gestVars, funVars>>

_automation_loop(d2, d1, dbg, ldr) ==
    /\ loop_pc = "loop"
    /\ running
    /\ _check_occupancy(d2, d1, dbg, ldr)
    /\ ExitingClock(0)
    /\ Track
    /\ UNCHANGED <<running, loop_pc, stopping, gestVars, funVars>>

\* a brightness read that is not made this tick has no samples to choose
NoSamples == [i \in 1..LDR_SAMPLE_COUNT |-> None]

\* the samples the tick's brightness reads can take: those of the debug
\* report, and those of the entrance after these range reads and that report
DebugSamples == IF DebugDue THEN LdrSamplings ELSE {NoSamples}
EntranceSamples(d2, d1, dbg) ==
    IF EntranceRead(d2, d1, dbg) THEN LdrSamplings ELSE {NoSamples}

PollTick ==
    \E d2, d1 \in Distances :
      \E dbg \in DebugSamples :
        \E ldr \in EntranceSamples(d2, d1, dbg) :
          _automation_loop(d2, d1, dbg, ldr)

start ==
    /\ ~running
    /\ loop_pc = "none"
    /\ running' = TRUE
    /\ loop_pc' = "loop"
    /\ cmd' = "none"
    /\ UNCHANGED <<state, last_sensor_events, exit_timer, orphans, lock,
                   debug_due, exiting_for, led_states, gestVars, funVars,
                   driven, stopping>>

\* stop(): clears the flag; the join that follows waits at most 2 s for the
\* loop thread and for no countdown thread
stop ==
    /\ running
    /\ running' = FALSE
    /\ stopping' = [stopping EXCEPT
                       !.join = IF loop_pc = "loop" THEN JoinTimeout ELSE 0]
    /\ cmd' = "none"
    /\ UNCHANGED <<state, last_sensor_events, exit_timer, orphans, lock,
                   loop_pc, debug_due, exiting_for, led_states, gestVars,
                   funVars,
                   driven>>

\* start() called again after a stop() has returned: its join has ended
\* because the loop thread has, or because the 2 s are over.  The thread of
\* the earlier start(), if still alive, runs on beside the new one.
start_after_stop ==
    /\ ~running
    /\ loop_pc \in {"loop", "done"}
    /\ loop_pc = "loop" => stopping.join = 0
    /\ stopping.old + (IF loop_pc = "loop" THEN 2 ELSE 1) <= MaxLoops
    /\ running' = TRUE
    /\ loop_pc' = "loop"
    /\ stopping' = [join |-> 0,
                    old |-> stopping.old + (IF loop_pc = "loop" THEN 1 ELSE 0)]
    /\ cmd' = "none"
    /\ UNCHANGED <<state, last_sensor_events, exit_timer, orphans, lock,
                   debug_due, exiting_for, led_states, gestVars, funVars,
                   driven>>

\* `while self.running` is found false: the loop thread ends
LoopExit ==
    /\ loop_pc = "loop"
    /\ ~running
    /\ loop_pc' = "done"
    /\ cmd' = "none"
    /\ UNCHANGED <<state, last_sensor_events, exit_timer, orphans, lock,
                   running, debug_due, exiting_for, led_states, gestVars,
                   funVars,
                   driven, stopping>>

\* `while self.running` is found false by the thread of an earlier start()
OldLoopExit ==
    /\ stopping.old > 0
    /\ ~running
    /\ stopping' = [stopping EXCEPT !.old = @ - 1]
    /\ cmd' = "none"
    /\ UNCHANGED <<state, last_sensor_events, exit_timer, orphans, lock,
                   running, loop_pc, debug_due, exiting_for, led_states,
                   gestVars, funVars, driven>>

----------------------------------------------------------------------------
(* _exit_delay_countdown, one thread per started timer *)

\* time.sleep(1) is over: the unlocked check of line 343, then the next
\* iteration or, after EXIT_DELAY iterations, the wait for the lock
Woken(t) ==
    IF ~running \/ state # "EXITING"
    THEN [pc |-> "return", i |-> 0, sleep |-> 0]
    ELSE IF t.i + 1 = ExitDelay
    THEN [pc |-> "acquire", i |-> 0, sleep |-> 0]
    ELSE [pc |-> "sleep", i |-> t.i + 1, sleep |-> CountdownSleep]

TimerWake(th) ==
    /\ th[2].pc = "sleep"
    /\ th[2].sleep = 0
    /\ Become(th, Woken(th[2]))
    /\ cmd' = "none"
    /\ UNCHANGED <<state, last_sensor_events, lock, running, loop_pc,
                   debug_due, exiting_for, led_states, gestVars, funVars,
                   driven, stopping>>

\* with self.lock:
TimerAcquire(th) ==
    /\ th[2].pc = "acquire"
    /\ lock = "free"
    /\ lock' = "timer"
    /\ Become(th, [th[2] EXCEPT !.pc = "locked"])
    /\ cmd' = "none"
    /\ UNCHANGED <<state, last_sensor_events, running, loop_pc,
                   debug_due, exiting_for, led_states, gestVars, funVars,
                   driven, stopping>>

\* variant: the body without the re-check of the state
TimerBody_no_recheck ==
    _turn_off_bedroom_light /\ state' = "EMPTY"

\* the body of the with block
TimerBody ==
    IF state = "EXITING"
    THEN _turn_off_bedroom_light /\ state' = "EMPTY"
    ELSE NoLightAction /\ UNCHANGED state

\* variant: the with block ends without releasing the lock
TimerFire_keeps_lock(th) ==
    /\ th[2].pc = "locked"
    /\ TimerBody
    /\ lock' = lock
    /\ Become(th, [th[2] EXCEPT !.pc = "return"])
    /\ ExitingClock(0)
    /\ UNCHANGED <<last_sensor_events, running, loop_pc, debug_due, gestVars, funVars,
                   driven, stopping>>

\* the with block, and the release of the lock
TimerFire(th) ==
    /\ th[2].pc = "locked"
    /\ TimerBody
    /\ lock' = "free"
    /\ Become(th, [th[2] EXCEPT !.pc = "return"])
    /\ ExitingClock(0)
    /\ UNCHANGED <<last_sensor_events, running, loop_pc, debug_due, gestVars, funVars,
                   driven, stopping>>

\* the thread function has returned; the thread stops being alive
TimerExit(th) ==
    /\ th[2].pc = "return"
    /\ Become(th, DeadTimer)
    /\ cmd' = "none"
    /\ UNCHANGED <<state, last_sensor_events, lock, running, loop_pc,
                   debug_due, exiting_for, led_states, gestVars, funVars,
                   driven, stopping>>

----------------------------------------------------------------------------
(* Passage of one time unit *)

Dec(n) == IF n > 0 THEN n - 1 ELSE 0

Slept(t) == [t EXCEPT !.sleep = Dec(@)]

RECURSIVE Copies(_, _)
Copies(B, S) ==
    IF S = {} THEN 0
    ELSE LET t == CHOOSE x \in S : TRUE
         IN  B[t] + Copies(B, S \ {t})

SleptBag(B) ==
    [u \in {Slept(t) : t \in BagToSet(B)} |->
        Copies(B, {t \in BagToSet(B) : Slept(t) = u})]

AdvanceTime ==
    /\ last_sensor_events' =
          [j \in 1..Len(last_sensor_events) |->
              [last_sensor_events[j] EXCEPT
                  !.age = IF @ < WindowDuration THEN @ + 1 ELSE @]]
    /\ exit_timer' = Slept(exit_timer)
    /\ orphans' = SleptBag(orphans)
    /\ debug_due' \in {debug_due, TRUE}
    /\ cmd' = "none"
    /\ stopping' = [stopping EXCEPT !.join = Dec(@)]
    /\ UNCHANGED <<state, lock, running, loop_pc, led_states, gestVars, funVars,
                   driven>>
    /\ ExitingClock(1)

----------------------------------------------------------------------------
(* RoomLightsController: light channels *)

\* self.leds[room] of a room without LED raises KeyError, in toggle_light
\* and in set_light, before the stored state is written
no_such_led(room) == room \notin Rooms

\* led.close() has been called on every LED: on() and off() of a closed
\* device raise, again before the stored state is written
leds_closed == cleanup_pc = "done"

toggle_light(room) ==
    /\ led_states' = IF no_such_led(room) \/ leds_closed THEN led_states
                     ELSE [led_states EXCEPT ![room] = ~led_states[room]]
    /\ cmd' = "toggle"

\* variant: switching on flips the stored state
set_light_flips(room, st) ==
    /\ led_states' = IF no_such_led(room) THEN led_states
                     ELSE [led_states EXCEPT ![room] = IF st THEN ~@ ELSE st]
    /\ cmd' = IF st THEN "on" ELSE "off"

set_light(room, st) ==
    /\ led_states' = IF no_such_led(room) \/ leds_closed THEN led_states
                     ELSE [led_states EXCEPT ![room] = st]
    /\ cmd' = IF st THEN "on" ELSE "off"

\* self.led_states.get(room, False)
get_light_state(room) == IF room \in Rooms THEN led_states[room] ELSE FALSE

\* variant: only the first channel is switched
all_lights_on_first_only ==
    /\ led_states' = [led_states EXCEPT !["bedroom"] = TRUE]
    /\ cmd' = "all_on"

all_lights_on ==
    /\ led_states' = IF leds_closed THEN led_states ELSE [r \in Rooms |-> TRUE]
    /\ cmd' = "all_on"

all_lights_off ==
    /\ led_states' = IF leds_closed THEN led_states ELSE [r \in Rooms |-> FALSE]
    /\ cmd' = "all_off"

----------------------------------------------------------------------------
(* RoomLightsController: button gestures.  A threading.Timer thread is     *)
(*   [room, pc, cancelled, second]                                         *)
(* pc "wait": in finished.wait(double_click_time); "fire": the wait is     *)
(* over and _single_press_action is about to run.  cancelled is the        *)
(* Timer's finished flag set by cancel().  second is history: a second     *)
(* press on the room was handled while the timer was still waiting.        *)

NoGTimer == [room |-> "", pc |-> "none", cancelled |-> FALSE, second |-> FALSE]
NewGTimer(room) ==
    [room |-> room, pc |-> "wait", cancelled |-> FALSE, second |-> FALSE]

\* Timer.is_alive()
timer_is_alive(t) == t.pc \in {"wait", "fire"}

\* Timer.cancel(): sets the finished flag; a timer past its wait ignores it
cancel(t) == IF t.pc = "wait" THEN [t EXCEPT !.cancelled = TRUE] ELSE t

Entries == {r \in Rooms : pending[r] # NoGTimer}

\* the live Timer threads, each with whether the map records it
GThreads ==
    {<<TRUE, pending[r]>> : r \in Entries}
        \cup {<<FALSE, t>> : t \in BagToSet(gtimers)}

LiveGTimers == Cardinality(Entries) + BagCardinality(gtimers)

\* cancel every recorded timer and clear the map, from map p and bag g
_cancel_all_pending_timers(p, g) ==
    [pending |-> [r \in Rooms |-> NoGTimer],
     gtimers |-> g (+) SetToBag({cancel(p[r]) : r \in {x \in Rooms : p[x] # NoGTimer}})]

\* one more press edge ("presses"), single-press action ("singles") or
\* double-press action ("doubles") is entered in the history
NoTally == [on |-> FALSE, presses |-> 0, singles |-> 0, doubles |-> 0]
Count(what) ==
    tally' = IF tally.on THEN [tally EXCEPT ![what] = @ + 1] ELSE tally
PressCap == tally.on => tally.presses < MaxPresses

\* btn.close() has been called on every button: no callback is made any more
buttons_closed == cleanup_pc = "done"

\* variant: starting a timer cancels the recorded timers of the other rooms
PressBegin_cancels_others(room) ==
    /\ ~buttons_closed
    /\ press_pc = "idle"
    /\ PressCap
    /\ Count("presses")
    /\ IF pending[room] # NoGTimer /\ timer_is_alive(pending[room])
       THEN /\ press_pc' = room
            /\ pending' = [pending EXCEPT ![room].second =
                              @ \/ pending[room].pc = "wait"]
            /\ UNCHANGED gtimers
       ELSE /\ LiveGTimers < MaxGTimers
            /\ LET c == _cancel_all_pending_timers(
                            [pending EXCEPT ![room] = NoGTimer], gtimers)
               IN  /\ pending' = [c.pending EXCEPT ![room] = NewGTimer(room)]
                   /\ gtimers' = c.gtimers
            /\ UNCHANGED press_pc
    /\ cmd' = "none"
    /\ UNCHANGED <<cleanup_pc, occVars, led_states, funVars>>

\* _on_button_press up to the test of the recorded timer; with no live timer
\* recorded, the rest of the handler (start a timer) as well
PressBegin(room) ==
    /\ ~buttons_closed
    /\ press_pc = "idle"
    /\ PressCap
    /\ Count("presses")
    /\ IF pending[room] # NoGTimer /\ timer_is_alive(pending[room])
       THEN /\ press_pc' = room
            /\ pending' = [pending EXCEPT ![room].second =
                              @ \/ pending[room].pc = "wait"]
            /\ UNCHANGED gtimers
       ELSE /\ LiveGTimers < MaxGTimers
            /\ pending' = [pending EXCEPT ![room] = NewGTimer(room)]
            /\ UNCHANGED <<gtimers, press_pc>>
    /\ cmd' = "none"
    /\ UNCHANGED <<cleanup_pc, occVars, led_states, funVars>>

\* the double-press branch: timer.cancel(), del of the entry (KeyError when
\* the timer's own action has deleted it meanwhile), _handle_double_press
PressSecond ==
    /\ press_pc \in Rooms
    /\ press_pc' = "idle"
    /\ IF pending[press_pc] = NoGTimer
       THEN /\ cmd' = "none"
            /\ UNCHANGED <<pending, gtimers, led_states, tally>>
       ELSE LET c == _cancel_all_pending_timers(
                         [pending EXCEPT ![press_pc] = NoGTimer],
                         gtimers (+) SetToBag({cancel(pending[press_pc])}))
            IN  /\ pending' = c.pending
                /\ gtimers' = c.gtimers
                /\ all_lights_on
                /\ Count("doubles")
    /\ UNCHANGED <<cleanup_pc, occVars, funVars>>

_on_button_hold(room) ==
    /\ ~buttons_closed
    /\ LET c == _cancel_all_pending_timers(pending, gtimers)
       IN  /\ pending' = c.pending
           /\ gtimers' = c.gtimers
    /\ all_lights_off
    /\ UNCHANGED <<press_pc, cleanup_pc, tally, occVars, funVars>>

\* cleanup() up to all_lights_off(): every recorded timer is cancelled, the
\* map cleared and every light switched off
cleanup ==
    /\ cleanup_pc = "none"
    /\ cleanup_pc' = "closing"
    /\ LET c == _cancel_all_pending_timers(pending, gtimers)
       IN  /\ pending' = c.pending
           /\ gtimers' = c.gtimers
    /\ all_lights_off
    /\ UNCHANGED <<press_pc, tally, occVars, funVars>>

\* the rest of cleanup(): the LEDs, the buttons and the pin factory are
\* closed, and cleanup() returns
cleanup_close ==
    /\ cleanup_pc = "closing"
    /\ cleanup_pc' = "done"
    /\ cmd' = "none"
    /\ UNCHANGED <<pending, gtimers, press_pc, tally, led_states, occVars,
                   funVars>>

\* Timer.run after the wait: a cancelled timer ends, another calls its function
GTimerExpire(th) ==
    /\ th[2].pc = "wait"
    /\ IF th[1]
       THEN /\ pending' = [pending EXCEPT ![th[2].room].pc = "fire"]
            /\ UNCHANGED gtimers
       ELSE /\ gtimers' = (gtimers (-) SetToBag({th[2]}))
                             (+) (IF th[2].cancelled THEN EmptyBag
                                  ELSE SetToBag({[th[2] EXCEPT !.pc = "fire"]}))
            /\ UNCHANGED pending
    /\ cmd' = "none"
    /\ UNCHANGED <<press_pc, cleanup_pc, tally, occVars, led_states, funVars>>

\* variant: the action without the deletion of the entry
_single_press_action_keeps_entry(th) ==
    /\ UNCHANGED pending
    /\ gtimers' = IF th[1] THEN gtimers ELSE gtimers (-) SetToBag({th[2]})
    /\ toggle_light(th[2].room)

\* _single_press_action(room): delete the room's entry, whichever timer it
\* records, and toggle the room's light; the thread ends
_single_press_action(th) ==
    /\ pending' = [pending EXCEPT ![th[2].room] = NoGTimer]
    /\ gtimers' = IF th[1] THEN gtimers
                  ELSE (gtimers (-) SetToBag({th[2]}))
                          (+) (IF pending[th[2].room] # NoGTimer
                               THEN SetToBag({pending[th[2].room]})
                               ELSE EmptyBag)
    /\ toggle_light(th[2].room)

GTimerFire(th) ==
    /\ th[2].pc = "fire"
    /\ _single_press_action(th)
    /\ Count("singles")
    /\ UNCHANGED <<press_pc, cleanup_pc, occVars, funVars>>

----------------------------------------------------------------------------
(* Single calls.  A call is [f, window, samples, room, st, d]: the         *)
(* function, and the event window, the brightness samples, the channel id  *)
(* and light state, the echo-timing distance, or the two sample lists of   *)
(* the threshold tuning it works on; its result is                         *)
(* [done, entrance, exit, raised, is_dark, ret], ret being the value an    *)
(* actuator call or a sensor read returns ("True", "False" or "None").     *)

NoCall == [f |-> "none", window |-> <<>>, samples |-> <<>>,
           room |-> "", st |-> FALSE, d |-> 0,
           baseline |-> <<>>, occupied |-> <<>>]

\* what recommend_threshold returns: the rationale and the threshold, in
\* hundredths of a second, as num / den plus the margin whose square is
\* msq_num / msq_den (0 / 1 when there is no margin)
NoRecommendation ==
    [rationale |-> "none", num |-> 0, den |-> 1, msq_num |-> 0, msq_den |-> 1]

NoResult == [done |-> FALSE, entrance |-> FALSE, exit |-> FALSE,
             raised |-> FALSE, is_dark |-> FALSE, ret |-> "None",
             rec |-> NoRecommendation]

\* channel ids a caller can pass: the rooms, and one that has no LED
ChannelIds == Rooms \cup {"attic"}

PyBool(b) == IF b THEN "True" ELSE "False"

\* the windows _check_occupancy can hand to the detectors: up to MaxWindow
\* snapshots less than the window duration old, oldest first
Snapshots ==
    [age : 0..(WindowDuration - 1), us1 : BOOLEAN, us2 : BOOLEAN]

Windows ==
    { w \in UNION { [1..n -> Snapshots] : n \in 0..MaxWindow } :
          \A j \in 1..(Len(w) - 1) : w[j].age >= w[j + 1].age }

\* samplings of one brightness measurement: as in the poll loop, and seven
\* bright samples with one outlier
LdrInputs == LdrSamplings \cup {<<4, 4, 5, 60, 4, 4, 5>>}

\* _detect_entrance_sequence() and _detect_exit_sequence() on a window
Detect ==
    /\ inp.f = "detect"
    /\ ~out.done
    /\ out' = [NoResult EXCEPT
                  !.done = TRUE,
                  !.entrance = _detect_entrance_sequence(inp.window),
                  !.exit = _detect_exit_sequence(inp.window)]
    /\ UNCHANGED <<inp, calls, occVars, led_states, cmd, gestVars>>

\* is_room_dark() on the samples of one measurement
Classify ==
    /\ inp.f = "classify"
    /\ ~out.done
    /\ out' = [NoResult EXCEPT
                  !.done = TRUE,
                  !.raised = is_room_dark(inp.samples).raised,
                  !.is_dark = is_room_dark(inp.samples).is_dark]
    /\ UNCHANGED <<inp, calls, occVars, led_states, cmd, gestVars>>

----------------------------------------------------------------------------
(* Threshold tuning (tests/sensor_tuning.py), on RC times in hundredths of *)
(* a second.  The statistics are kept exact: the median doubled, the       *)
(* percentiles times ten, the variance as a fraction.                      *)

RECURSIVE sorted(_)
sorted(s) ==
    IF s = <<>> THEN <<>>
    ELSE LET m == CHOOSE i \in 1..Len(s) : \A j \in 1..Len(s) : s[i] <= s[j]
         IN  <<s[m]>> \o sorted(SubSeq(s, 1, m - 1) \o SubSeq(s, m + 1, Len(s)))

RECURSIVE SumOf(_)
SumOf(s) == IF s = <<>> THEN 0 ELSE Head(s) + SumOf(Tail(s))

\* statistics.median, doubled
median2(srt) ==
    LET n == Len(srt)
    IN  IF n % 2 = 1 THEN 2 * srt[(n + 1) \div 2]
        ELSE srt[n \div 2] + srt[n \div 2 + 1]

\* percentile(p) of stats_from_list for p a multiple of ten, times ten:
\* k = (n-1) * p/100, f = int(k), c = min(f+1, n-1), and the value at f
\* when f = c, else sorted[f] * (c - k) + sorted[c] * (k - f)
percentile(srt, p) ==
    LET n == Len(srt)
        k10 == (n - 1) * (p \div 10)
        f == k10 \div 10
        c == IF f + 1 < n - 1 THEN f + 1 ELSE n - 1
    IN  IF f = c THEN 10 * srt[f + 1]
        ELSE srt[f + 1] * (10 * c - k10) + srt[c + 1] * (k10 - 10 * f)

NoStats == [count |-> 0, median2 |-> 0, p10 |-> 0, p90 |-> 0,
            var_num |-> 0, var_den |-> 1]

\* stats_from_list: None when no value is left; statistics.stdev squared is
\* var_num / var_den (0.0 for a single value)
stats_from_list(values) ==
    LET clean == SelectSeq(values, LAMBDA v : v # None)
        n == Len(clean)
        srt == sorted(clean)
        squares == [j \in 1..n |-> clean[j] * clean[j]]
    IN  IF clean = <<>> THEN NoStats
        ELSE [count |-> n,
              median2 |-> median2(srt),
              p10 |-> percentile(srt, 10),
              p90 |-> percentile(srt, 90),
              var_num |-> IF n > 1
                          THEN n * SumOf(squares) - SumOf(clean) * SumOf(clean)
                          ELSE 0,
              var_den |-> IF n > 1 THEN n * (n - 1) ELSE 1]

\* recommend_threshold(..., kind='ldr'): baseline = bright, occupied = dark.
\* margin = max(0.01, stdev if stdev else 0.01), one hundredth being the
\* unit: its square is the variance when that is at least 1, else 1
recommend_threshold(baseline_vals, occupied_vals) ==
    LET b == stats_from_list(baseline_vals)
        o == stats_from_list(occupied_vals)
    IN  IF b = NoStats \/ o = NoStats
        THEN [NoRecommendation EXCEPT !.rationale = "Insufficient data"]
        ELSE IF o.p90 > b.p10
        THEN [NoRecommendation EXCEPT
                 !.rationale = "Midpoint between medians (no overlap)",
                 !.num = b.median2 + o.median2, !.den = 4]
        ELSE [rationale |-> "Overlap: chosen occupied p90 + margin",
              num |-> o.p90, den |-> 10,
              msq_num |-> IF o.var_num >= o.var_den THEN o.var_num ELSE 1,
              msq_den |-> IF o.var_num >= o.var_den THEN o.var_den ELSE 1]

\* the sample lists of a tuning run: up to MaxSamples RC times each
TuningSamples ==
    UNION { [1..n -> {None, 4, 6, 60}] : n \in 0..MaxSamples }

\* recommend_threshold on the two sample lists
Recommend ==
    /\ inp.f = "recommend_threshold"
    /\ ~out.done
    /\ out' = [NoResult EXCEPT
                  !.done = TRUE,
                  !.rec = recommend_threshold(inp.baseline, inp.occupied)]
    /\ UNCHANGED <<inp, calls, occVars, led_states, cmd, gestVars>>

----------------------------------------------------------------------------

Init ==
    /\ state = "EMPTY"
    /\ last_sensor_events = <<>>
    /\ exit_timer = NoTimer
    /\ orphans = EmptyBag
    /\ lock = "free"
    /\ running = FALSE
    /\ loop_pc = "none"
    /\ debug_due = TRUE
    /\ exiting_for = 0
    /\ stopping = [join |-> 0, old |-> 0]
    /\ driven = [on |-> FALSE, flags |-> <<>>]
    /\ led_states = [r \in Rooms |-> FALSE]
    /\ cmd = "none"
    /\ pending = [r \in Rooms |-> NoGTimer]
    /\ gtimers = EmptyBag
    /\ press_pc = "idle"
    /\ cleanup_pc = "none"
    /\ tally = NoTally
    /\ inp = NoCall
    /\ out = NoResult
    /\ calls = <<>>

Next ==
    \/ start
    \/ PollTick
    \/ \E th \in Threads : TimerWake(th)
    \/ \E th \in Threads : TimerAcquire(th)
    \/ \E th \in Threads : TimerFire(th)
    \/ \E th \in Threads : TimerExit(th)
    \/ AdvanceTime

Spec == Init /\ [][Next]_vars

GestureNext ==
    \/ \E room \in Rooms : PressBegin(room)
    \/ PressSecond
    \/ \E room \in Rooms : _on_button_hold(room)
    \/ \E th \in GThreads : GTimerExpire(th)
    \/ \E th \in GThreads : GTimerFire(th)

GestureSpec == Init /\ [][GestureNext]_vars

\* the button gestures up to the shutdown of the controller
CleanupNext ==
    \/ GestureNext
    \/ cleanup
    \/ cleanup_close

CleanupSpec == Init /\ [][CleanupNext]_vars

\* read_us1_sensor() / read_us2_sensor() on the distance that
\* read_ultrasonic_distance returned: the trigger flag
ReadSensor ==
    /\ inp.f \in {"read_us1_sensor", "read_us2_sensor"}
    /\ ~out.done
    /\ out' = [NoResult EXCEPT
                  !.done = TRUE,
                  !.ret = PyBool(IF inp.f = "read_us1_sensor"
                                 THEN read_us1_sensor(inp.d)
                                 ELSE read_us2_sensor(inp.d))]
    /\ UNCHANGED <<inp, calls, occVars, led_states, cmd, gestVars>>

\* the call that ends this step is entered in the history
Recorded ==
    calls' = Append(calls, [pre |-> led_states, post |-> led_states',
                            ret |-> out'.ret, raised |-> out'.raised])

\* set_light(room, st) called by the application, once or again
SetLightCall ==
    /\ inp.f = "set_light"
    /\ Len(calls) < MaxCalls
    /\ set_light(inp.room, inp.st)
    /\ out' = IF no_such_led(inp.room)
              THEN [NoResult EXCEPT !.done = TRUE, !.raised = TRUE]
              ELSE [NoResult EXCEPT !.done = TRUE, !.ret = PyBool(inp.st)]
    /\ Recorded
    /\ UNCHANGED <<inp, occVars, gestVars>>

\* toggle_light(room) called by the application, once or again; it has no
\* return statement
ToggleLightCall ==
    /\ inp.f = "toggle_light"
    /\ Len(calls) < MaxCalls
    /\ toggle_light(inp.room)
    /\ out' = IF no_such_led(inp.room)
              THEN [NoResult EXCEPT !.done = TRUE, !.raised = TRUE]
              ELSE [NoResult EXCEPT !.done = TRUE]
    /\ Recorded
    /\ UNCHANGED <<inp, occVars, gestVars>>

\* get_light_state(room) called by the application
GetLightStateCall ==
    /\ inp.f = "get_light_state"
    /\ ~out.done
    /\ out' = [NoResult EXCEPT !.done = TRUE,
                               !.ret = PyBool(get_light_state(inp.room))]
    /\ cmd' = "none"
    /\ UNCHANGED <<inp, calls, led_states, occVars, gestVars>>

CallInit ==
    /\ state = "EMPTY"
    /\ last_sensor_events = <<>>
    /\ exit_timer = NoTimer
    /\ orphans = EmptyBag
    /\ lock = "free"
    /\ running = FALSE
    /\ loop_pc = "none"
    /\ debug_due = TRUE
    /\ exiting_for = 0
    /\ stopping = [join |-> 0, old |-> 0]
    /\ driven = [on |-> FALSE, flags |-> <<>>]
    /\ led_states \in [Rooms -> BOOLEAN]
    /\ cmd = "none"
    /\ pending = [r \in Rooms |-> NoGTimer]
    /\ gtimers = EmptyBag
    /\ press_pc = "idle"
    /\ cleanup_pc = "none"
    /\ tally = NoTally
    /\ inp \in {[NoCall EXCEPT !.f = "detect", !.window = w] : w \in Windows}
               \cup {[NoCall EXCEPT !.f = "classify", !.samples = s] :
                        s \in LdrInputs}
               \cup {[NoCall EXCEPT !.f = f, !.room = c, !.st = b] :
                        f \in {"set_light", "toggle_light", "get_light_state"},
                        c \in ChannelIds, b \in BOOLEAN}
               \cup {[NoCall EXCEPT !.f = f, !.d = d] :
                        f \in {"read_us1_sensor", "read_us2_sensor"},
                        d \in RangeReadings}
               \cup {[NoCall EXCEPT !.f = "recommend_threshold",
                                    !.baseline = b, !.occupied = o] :
                        b \in TuningSamples, o \in TuningSamples}
    /\ out = NoResult
    /\ calls = <<>>

CallNext ==
    \/ Detect
    \/ Classify
    \/ Recommend
    \/ ReadSensor
    \/ SetLightCall
    \/ ToggleLightCall
    \/ GetLightStateCall

CallSpec == CallInit /\ [][CallNext]_vars

\* the application run to its shutdown: stop() may be called at any time
ShutdownNext ==
    \/ Next
    \/ stop
    \/ LoopExit

ShutdownSpec == Init /\ [][ShutdownNext]_vars

\* the same with every thread taking its steps; nothing forces the stop
ShutdownFairSpec ==
    /\ ShutdownSpec
    /\ WF_vars(start)
    /\ WF_vars(PollTick)
    /\ WF_vars(LoopExit)
    /\ WF_vars(\E th \in Threads : TimerWake(th))
    /\ WF_vars(\E th \in Threads : TimerAcquire(th))
    /\ WF_vars(\E th \in Threads : TimerFire(th))
    /\ WF_vars(\E th \in Threads : TimerExit(th))
    /\ WF_vars(AdvanceTime)

\* the application stopped and started again
RestartNext ==
    \/ ShutdownNext
    \/ start_after_stop
    \/ OldLoopExit

RestartSpec == Init /\ [][RestartNext]_vars

\* the occupancy machine with the history of the pairs that drove a
\* transition
TrackedInit ==
    /\ state = "EMPTY"
    /\ last_sensor_events = <<>>
    /\ exit_timer = NoTimer
    /\ orphans = EmptyBag
    /\ lock = "free"
    /\ running = FALSE
    /\ loop_pc = "none"
    /\ debug_due = TRUE
    /\ exiting_for = 0
    /\ stopping = [join |-> 0, old |-> 0]
    /\ driven = [on |-> TRUE, flags |-> <<>>]
    /\ led_states = [r \in Rooms |-> FALSE]
    /\ cmd = "none"
    /\ pending = [r \in Rooms |-> NoGTimer]
    /\ gtimers = EmptyBag
    /\ press_pc = "idle"
    /\ cleanup_pc = "none"
    /\ tally = NoTally
    /\ inp = NoCall
    /\ out = NoResult
    /\ calls = <<>>

TrackedSpec == TrackedInit /\ [][Next]_vars

\* the button gestures with the history of the press edges and actions
TalliedInit ==
    /\ state = "EMPTY"
    /\ last_sensor_events = <<>>
    /\ exit_timer = NoTimer
    /\ orphans = EmptyBag
    /\ lock = "free"
    /\ running = FALSE
    /\ loop_pc = "none"
    /\ debug_due = TRUE
    /\ exiting_for = 0
    /\ stopping = [join |-> 0, old |-> 0]
    /\ driven = [on |-> FALSE, flags |-> <<>>]
    /\ led_states = [r \in Rooms |-> FALSE]
    /\ cmd = "none"
    /\ pending = [r \in Rooms |-> NoGTimer]
    /\ gtimers = EmptyBag
    /\ press_pc = "idle"
    /\ cleanup_pc = "none"
    /\ tally = [NoTally EXCEPT !.on = TRUE]
    /\ inp = NoCall
    /\ out = NoResult
    /\ calls = <<>>

TalliedSpec == TalliedInit /\ [][GestureNext]_vars

\* every thread that can take a step eventually takes one, and time passes
FairSpec ==
    /\ Spec
    /\ WF_vars(start)
    /\ WF_vars(PollTick)
    /\ WF_vars(\E th \in Threads : TimerWake(th))
    /\ WF_vars(\E th \in Threads : TimerAcquire(th))
    /\ WF_vars(\E th \in Threads : TimerFire(th))
    /\ WF_vars(\E th \in Threads : TimerExit(th))
    /\ WF_vars(AdvanceTime)

----------------------------------------------------------------------------
(* Properties of the occupancy machine *)

\* the step inserted the snapshot of these two range reads into the window
Inserted(d2, d1) ==
    last_sensor_events' =
        AppendEvent(last_sensor_events, read_us1_sensor(d1),
                    read_us2_sensor(d2))

\* the step is a poll tick with these inputs that reached the state machine
\* (the debug report, when due, did not raise)
TickEvaluated(d2, d1, dbg, ldr) ==
    /\ _automation_loop(d2, d1, dbg, ldr)
    /\ ~DebugRaises(dbg)

\* the classification the samples stand for: dark when every sample timed
\* out, else median > threshold (the samplings are constant sequences, so
\* the median is the middle element)
ClassifiedDark(samples) ==
    LET vals == SelectSeq(samples, LAMBDA v : v # None)
    IN  \/ vals = <<>>
        \/ vals[(Len(vals) + 1) \div 2] > LdrThreshold

LastEvent == last_sensor_events[Len(last_sensor_events)]

\* the latest step was a poll tick that reached the state machine
JustEvaluated ==
    /\ Len(last_sensor_events) >= 1
    /\ LastEvent.age = 0
    /\ ~debug_due

\* C1: a poll tick in EXITING on which the inner sensor (US1) is triggered
\* reverts the state to OCCUPIED, drops the timer handle and issues no
\* command; and for as long as the state stays OCCUPIED no step (in
\* particular no step of the countdown that the re-entry cancelled) issues a
\* light-off command or changes a light: the light is left on.
C1_ReentryLeavesLightOn ==
    [][ /\ \A d2, d1 \in Distances : \A dbg, ldr \in LdrSamplings :
              ( /\ state = "EXITING"
                /\ _automation_loop(d2, d1, dbg, ldr)
                /\ read_us1_sensor(d1) )
              => ( /\ state' = "OCCUPIED"
                   /\ exit_timer' = NoTimer
                   /\ cmd' = "none"
                   /\ led_states' = led_states )
        /\ state = "OCCUPIED" => (cmd' # "off" /\ led_states' = led_states)
      ]_vars

\* the window holds a tick on which the inner sensor (US1) was triggered
InnerSeen ==
    \E j \in 1..Len(last_sensor_events) : last_sensor_events[j].us1

\* C2: from EXITING the state eventually becomes EMPTY, unless a poll tick
\* reports the inner sensor triggered: whenever the state is EXITING, later
\* either the state is EMPTY or the window shows an inner trigger.
C2_ExitingEndsInEmpty ==
    (state = "EXITING") ~> (state = "EMPTY" \/ InnerSeen)

\* C3: a light-off command is issued only by a countdown's locked section
\* (lock held) from state EXITING, together with the change to EMPTY; a
\* locked section entered in any other state changes neither the state nor
\* a light and issues no command.
C3_OffOnlyFromExitingUnderLock ==
    [][ /\ cmd' = "off" =>
              (state = "EXITING" /\ lock = "timer" /\ state' = "EMPTY")
        /\ \A th \in Threads :
              (TimerFire(th) /\ state # "EXITING")
              => (state' = state /\ led_states' = led_states /\ cmd' = "none")
        /\ \A th \in Threads :
              (TimerFire(th) /\ state = "EXITING")
              => ( /\ state' = "EMPTY"
                   /\ cmd' = "off"
                   /\ ~led_states'["bedroom"] )
      ]_vars

\* C3 witness: a countdown has just switched the light off and set EMPTY
C3_Witness ==
    /\ cmd = "off"
    /\ state = "EMPTY"
    /\ lock = "free"
    /\ ~led_states["bedroom"]

\* C7: in EMPTY, a poll tick on which the entrance order matches ends in
\* OCCUPIED whatever the brightness samples are, and issues the light-on
\* command exactly when they classify as dark.  Stated for the ticks whose
\* debug report did not raise, so that the handler itself is what is tested.
C7_EntranceAlwaysOccupies ==
    [][ \A d2, d1 \in Distances : \A dbg, ldr \in LdrSamplings :
            ( /\ state = "EMPTY"
              /\ TickEvaluated(d2, d1, dbg, ldr)
              /\ _detect_entrance_sequence(last_sensor_events') )
            => ( /\ state' = "OCCUPIED"
                 /\ cmd' = "on" <=> ClassifiedDark(ldr) )
      ]_vars

\* C8: in OCCUPIED, a poll tick on which the exit order matches sets EXITING
\* and leaves a live countdown referenced by the handle: the one that was
\* already alive, untouched, or else a new one with the whole exit delay
\* ahead of it.
C8_ExitStartsCountdown ==
    [][ \A d2, d1 \in Distances : \A dbg, ldr \in LdrSamplings :
            ( /\ state = "OCCUPIED"
              /\ _automation_loop(d2, d1, dbg, ldr)
              /\ _detect_exit_sequence(last_sensor_events') )
            => ( /\ state' = "EXITING"
                 /\ is_alive(exit_timer')
                 /\ exit_timer' = IF is_alive(exit_timer)
                                  THEN exit_timer ELSE NewTimer
                 /\ orphans' = orphans )
      ]_vars

\* C9: in EXITING a poll tick reverts to OCCUPIED exactly when the inner
\* flag of that tick is true, whatever the outer sensor reports and
\* whatever the window holds.
C9_ReentryOnlyOnInnerFlag ==
    [][ \A d2, d1 \in Distances : \A dbg, ldr \in LdrSamplings :
          ( /\ state = "EXITING"
            /\ _automation_loop(d2, d1, dbg, ldr) )
          => (state' = "OCCUPIED" <=> read_us1_sensor(d1))
      ]_vars

\* C10: a tick in EMPTY without an entrance-order match (whether or not the
\* exit order matches), and a tick in OCCUPIED without an exit-order match
\* (whether or not the entrance order matches), change neither the state
\* nor the timer handle nor a light, and issue no command.
C10_OnlyOwnPattern ==
    [][ \A d2, d1 \in Distances : Inserted(d2, d1) =>
        \A dbg \in DebugSamples : \A ldr \in EntranceSamples(d2, d1, dbg) :
          ( /\ _automation_loop(d2, d1, dbg, ldr)
            /\ \/ /\ state = "EMPTY"
                  /\ ~_detect_entrance_sequence(last_sensor_events')
               \/ /\ state = "OCCUPIED"
                  /\ ~_detect_exit_sequence(last_sensor_events') )
          => ( /\ state' = state
               /\ exit_timer' = exit_timer
               /\ orphans' = orphans
               /\ led_states' = led_states
               /\ cmd' = "none" )
      ]_vars

\* C10 witness: the state machine just ran in EMPTY on a window that holds
\* the exit order and not the entrance order, and the state is still EMPTY
C10_Witness ==
    /\ state = "EMPTY"
    /\ JustEvaluated
    /\ _detect_exit_sequence(last_sensor_events)
    /\ ~_detect_entrance_sequence(last_sensor_events)

\* C11: every poll tick gets past the debug report and evaluates the state
\* machine: the step is the handler of the current state, run with the lock
\* free before and after (taken and released by the tick), and the debug
\* report is no longer due.
C11_EveryTickRunsHandler ==
    [][ \A d2, d1 \in Distances : \A dbg, ldr \in LdrSamplings :
            _automation_loop(d2, d1, dbg, ldr)
            => ( /\ debug_due' = FALSE
                 /\ StateMachine(read_us1_sensor(d1), ldr) )
      ]_vars

\* C12: a light-off command is issued only when the current EXITING episode
\* is at least the whole exit delay old.
C12_OffNotBeforeExitDelay ==
    [][cmd' = "off" => exiting_for >= ExitDelay * CountdownSleep]_vars

\* C13: after a poll tick has inserted its snapshot, the snapshot is the last
\* of the window and records the tick's two flags; every retained snapshot
\* is less than the window duration older than it; the snapshots are in
\* time order (oldest first); and those retained from before are a suffix
\* of the old window, in their old order.
C13_WindowAfterInsert ==
    [][ \A d2, d1 \in Distances : Inserted(d2, d1) =>
        \A dbg \in DebugSamples : \A ldr \in EntranceSamples(d2, d1, dbg) :
            _automation_loop(d2, d1, dbg, ldr) =>
              LET w == last_sensor_events'
                  n == Len(w)
                  old == last_sensor_events
              IN  /\ n >= 1
                  /\ w[n] = [age |-> 0, us1 |-> read_us1_sensor(d1),
                             us2 |-> read_us2_sensor(d2)]
                  /\ \A j \in 1..n : w[j].age - w[n].age < WindowDuration
                  /\ \A j \in 1..(n - 1) : w[j].age >= w[j + 1].age
                  /\ n - 1 <= Len(old)
                  /\ SubSeq(w, 1, n - 1) =
                         SubSeq(old, Len(old) - n + 2, Len(old))
                  /\ \A j \in 1..(Len(old) - n + 1) :
                         old[j].age >= WindowDuration
      ]_vars

\* C13 witness: a tick has just inserted its snapshot behind one that is
\* one time unit short of the window duration
C13_Witness ==
    /\ Len(last_sensor_events) = 2
    /\ last_sensor_events[2].age = 0
    /\ last_sensor_events[1].age = WindowDuration - 1

\* C16: when every sample of a brightness measurement times out the
\* measurement has no value and the room is classified dark without
\* failing; and a tick in EMPTY whose brightness reads all time out and on
\* which the entrance order matches commands the light on and ends in
\* OCCUPIED.
C16_AllTimeoutsFailSafeDark ==
    /\ [](/\ measure_ldr_median(NoSamples) = [raised |-> FALSE, med |-> None]
          /\ is_room_dark(NoSamples) = [raised |-> FALSE, is_dark |-> TRUE])
    /\ [][ \A d2, d1 \in Distances :
             ( /\ state = "EMPTY"
               /\ _automation_loop(d2, d1, NoSamples, NoSamples)
               /\ _detect_entrance_sequence(last_sensor_events') )
             => ( /\ cmd' = "on"
                  /\ led_states'["bedroom"]
                  /\ state' = "OCCUPIED" )
         ]_vars

\* C16 witness: an entrance has just been handled and the light commanded on
C16_Witness ==
    /\ state = "OCCUPIED"
    /\ cmd = "on"
    /\ led_states["bedroom"]
    /\ JustEvaluated
    /\ _detect_entrance_sequence(last_sensor_events)

\* no snapshot of the window has a trigger flag set
NoTrigger(w) == \A j \in 1..Len(w) : ~w[j].us1 /\ ~w[j].us2

\* C18: a range read that timed out or failed is recorded as not triggered;
\* a tick on which both reads time out, with no trigger left in the window,
\* changes neither the state, the timer handle nor a light; and while the
\* window holds no trigger the only change of state is a countdown's
\* EXITING to EMPTY.
C18_TimeoutIsNotTriggered ==
    [][ /\ \A d2, d1 \in Distances : Inserted(d2, d1) =>
          \A dbg \in DebugSamples : \A ldr \in EntranceSamples(d2, d1, dbg) :
              _automation_loop(d2, d1, dbg, ldr) =>
                LET e == last_sensor_events'[Len(last_sensor_events')]
                IN  /\ d1 = TimeoutDistance => ~e.us1
                    /\ d2 = TimeoutDistance => ~e.us2
                    /\ ( /\ d1 = TimeoutDistance
                         /\ d2 = TimeoutDistance
                         /\ NoTrigger(last_sensor_events') )
                       => ( /\ state' = state
                            /\ exit_timer' = exit_timer
                            /\ led_states' = led_states
                            /\ cmd' = "none" )
        /\ ( /\ NoTrigger(last_sensor_events)
             /\ NoTrigger(last_sensor_events')
             /\ state' # state )
           => ( /\ state = "EXITING"
                /\ state' = "EMPTY"
                /\ \E th \in Threads : TimerFire(th) )
      ]_vars

\* C18 witness: a countdown has ended EXITING while the window held only
\* snapshots of timed-out reads
C18_Witness ==
    /\ state = "EMPTY"
    /\ cmd = "off"
    /\ Len(last_sensor_events) = 2
    /\ NoTrigger(last_sensor_events)

----------------------------------------------------------------------------
(* Properties of the button gestures *)

\* live timers of a room whose finished flag is not set
Uncancelled(room) ==
    (IF pending[room] # NoGTimer THEN 1 ELSE 0)
    + BagCardinality([t \in {x \in BagToSet(gtimers) :
                                x.room = room /\ ~x.cancelled} |-> gtimers[t]])

\* C4: a second press on a room handled while the first press's timer is
\* still waiting yields the double-press action (all lights on) and no
\* single-press action: the handler's double-press branch switches all
\* lights on, and the timer of the first press never runs its toggle.
C4_SecondPressNeverToggles ==
    [][ /\ \A th \in GThreads : GTimerFire(th) => ~th[2].second
        /\ (PressSecond /\ pending[press_pc].second) => cmd' = "all_on"
      ]_vars

\* C5: with no press or hold handled meanwhile, the timer of a single press
\* stays until it performs the single-press action, once: its expiry changes
\* no light and drops no timer, and its action toggles its own room's light,
\* changes no other light, leaves the room without an entry and ends the
\* thread.
C5_SinglePressTogglesOwnLight ==
    [][ /\ \A th \in GThreads :
              GTimerFire(th) =>
                /\ led_states' = [led_states EXCEPT ![th[2].room] = ~@]
                /\ pending'[th[2].room] = NoGTimer
                /\ \A r \in Rooms :
                      Uncancelled(r)' =
                          Uncancelled(r) - (IF r = th[2].room THEN 1 ELSE 0)
        /\ \A th \in GThreads :
              (GTimerExpire(th) /\ ~th[2].cancelled) =>
                /\ led_states' = led_states
                /\ \A r \in Rooms : Uncancelled(r)' = Uncancelled(r)
                /\ \E u \in GThreads' :
                      u = <<th[1], [th[2] EXCEPT !.pc = "fire"]>>
      ]_vars

\* C5 witness: a single press on "hall" has just fired, alone: its light is
\* the only one on, no timer is left and no handler is under way
C5_Witness ==
    /\ cmd = "toggle"
    /\ led_states = [r \in Rooms |-> r = "hall"]
    /\ GThreads = {}
    /\ press_pc = "idle"

\* C6: a hold on any room sets the finished flag of every timer that is
\* still waiting, of every room, and clears the map; and a timer whose flag
\* is set never reaches its action: it is still waiting, and its expiry
\* ends the thread without changing a light.
C6_HoldCancelsEveryWaitingTimer ==
    /\ [][ /\ \A room \in Rooms :
                 _on_button_hold(room) =>
                   /\ \A r \in Rooms : pending'[r] = NoGTimer
                   /\ \A th \in GThreads :
                         th[2].pc = "wait" =>
                            BagIn([th[2] EXCEPT !.cancelled = TRUE], gtimers')
                   /\ \A t \in BagToSet(gtimers') :
                         t.pc = "wait" => t.cancelled
           /\ \A th \in GThreads :
                 th[2].cancelled =>
                   /\ ~GTimerFire(th)
                   /\ GTimerExpire(th) =>
                         /\ led_states' = led_states
                         /\ BagCardinality(gtimers') = BagCardinality(gtimers) - 1
         ]_vars
    /\ [](\A th \in GThreads : th[2].cancelled => th[2].pc = "wait")

\* C15: the double-press action leaves every light on and the hold action
\* leaves every light off, for every room the edge came from and every
\* state the lights were in.
C15_DoubleAllOnHoldAllOff ==
    [][ /\ \A room \in Rooms :
              _on_button_hold(room) =>
                 (cmd' = "all_off" /\ \A r \in Rooms : ~led_states'[r])
        /\ (PressSecond /\ pending[press_pc] # NoGTimer) =>
                 (cmd' = "all_on" /\ \A r \in Rooms : led_states'[r])
        /\ cmd' = "all_on" => \A r \in Rooms : led_states'[r]
        /\ cmd' = "all_off" => \A r \in Rooms : ~led_states'[r]
      ]_vars

\* C15 witness: a double press on "hall" has just switched every light on
\* (the cancelled timer of its first press is still waiting)
C15_Witness ==
    /\ cmd = "all_on"
    /\ \A r \in Rooms : led_states[r]
    /\ \E t \in BagToSet(gtimers) :
          t.room = "hall" /\ t.cancelled /\ t.second

\* C30: the step that follows a completed hold handler leaves every light
\* off, unless it is the double-press branch of a later press: no
\* single-press action that was in flight during the hold switches a light
\* on after the hold's all-off.
C30_HoldAtomicAgainstFiring ==
    [][ (cmd = "all_off" /\ \A r \in Rooms : ~led_states[r])
        => (PressSecond \/ \A r \in Rooms : ~led_states'[r])
      ]_vars

\* C25: once cleanup() has returned every light is off, whatever the
\* single-press timers that were started before it do.
C25_AllOffAfterCleanup ==
    cleanup_pc = "done" => \A r \in Rooms : ~led_states[r]

\* C31: no channel has more than one single-press timer that was started
\* and has neither run its action nor been stopped by a cancel.
C31_OnePendingTimerPerChannel ==
    \A r \in Rooms : Uncancelled(r) <= 1

\* C36: the single-press action of a timer that the map does not record
\* (its entry was dropped by a second press or a hold) leaves the entry of
\* its room as it is, so that a newer timer of the room stays recorded.
C36_FiringRemovesOwnEntryOnly ==
    [][ \A th \in GThreads :
           (GTimerFire(th) /\ ~th[1])
           => pending'[th[2].room] = pending[th[2].room]
      ]_vars

\* a step of another channel than room's that starts a timer, or in which a
\* timer of another channel ends its wait or runs its single-press action
OtherChannelStep(room) ==
    \/ \E b \in Rooms \ {room} : PressBegin(b)
    \/ \E th \in GThreads :
          th[2].room # room /\ (GTimerExpire(th) \/ GTimerFire(th))

\* the Timer threads of a room, recorded or not
TimersOf(room) ==
    <<pending[room],
      [t \in {x \in BagToSet(gtimers) : x.room = room} |-> gtimers[t]]>>

C35_NoPressClassifiedTwice ==
    tally.on => tally.singles + 2 * tally.doubles <= tally.presses

----------------------------------------------------------------------------
(* Properties of single calls *)

\* the timestamp of the j-th snapshot of a window, relative to now
Stamp(w, j) == 0 - w[j].age

\* snapshots i and i+1 of w show the order `first` then `second` in time
OrderedPair(w, i, first, second) ==
    /\ w[i][first]
    /\ w[i + 1][second]
    /\ Stamp(w, i + 1) - Stamp(w, i) < MaxSequenceInterval

\* C14: a detector returns true exactly when some adjacent pair of the
\* window shows its order (entrance: US2 then US1, exit: US1 then US2) with
\* timestamps less than the maximum interval apart; with fewer than two
\* snapshots both return false; and the call leaves the window as it was.
C14_DetectMatchesAdjacentPair ==
    /\ []( (inp.f = "detect" /\ out.done) =>
             LET w == inp.window
             IN  /\ out.entrance <=>
                       \E i \in 1..(Len(w) - 1) : OrderedPair(w, i, "us2", "us1")
                 /\ out.exit <=>
                       \E i \in 1..(Len(w) - 1) : OrderedPair(w, i, "us1", "us2")
                 /\ Len(w) < 2 => (~out.entrance /\ ~out.exit) )
    /\ [][inp' = inp]_vars

\* C14 witness: the entrance detector returned false on a window whose only
\* US2-then-US1 samples within the interval are not adjacent
C14_Witness ==
    /\ inp.f = "detect"
    /\ out.done
    /\ ~out.entrance
    /\ Len(inp.window) = 3
    /\ inp.window[1].us2
    /\ inp.window[3].us1
    /\ inp.window[1].age - inp.window[3].age < MaxSequenceInterval


\* the samples of a measurement that did not time out
ValidSamples(samples) == SelectSeq(samples, LAMBDA v : v # None)

\* the k-th smallest element of a non-empty sequence of numbers
OrderStat(vals, k) ==
    CHOOSE x \in {vals[i] : i \in 1..Len(vals)} :
        /\ Cardinality({i \in 1..Len(vals) : vals[i] < x}) < k
        /\ Cardinality({i \in 1..Len(vals) : vals[i] <= x}) >= k

\* twice the median of a non-empty sequence of numbers
TwiceMedian(vals) ==
    LET n == Len(vals)
    IN  IF n % 2 = 1 THEN 2 * OrderStat(vals, (n + 1) \div 2)
        ELSE OrderStat(vals, n \div 2) + OrderStat(vals, n \div 2 + 1)

\* C17: with at least one valid sample the classification does not fail and
\* is dark exactly when the median of the valid samples exceeds the
\* threshold (so seven samples that are bright but for one outlier classify
\* as bright).
C17_ClassifyByMedian ==
    (inp.f = "classify" /\ out.done /\ ValidSamples(inp.samples) # <<>>)
    => ( /\ ~out.raised
         /\ out.is_dark <=>
               TwiceMedian(ValidSamples(inp.samples)) > 2 * LdrThreshold )


\* C19: a range reading below the minimum or above the maximum plausible
\* distance gives the trigger flag false.
C19_ImplausibleReadingIsNoTrigger ==
    ( /\ out.done
      /\ inp.f \in {"read_us1_sensor", "read_us2_sensor"}
      /\ (inp.d < MinPlausibleDistance \/ inp.d > MaxPlausibleDistance) )
    => out.ret = "False"

\* C20: an actuator call with a channel id that has no LED returns False or
\* None instead of raising, and leaves every stored light state as it was.
C20_UnknownChannelReturnsFalse ==
    /\ []( ( /\ out.done
             /\ inp.f \in {"set_light", "toggle_light", "get_light_state"}
             /\ inp.room \notin Rooms )
           => (~out.raised /\ out.ret \in {"False", "None"}) )
    /\ [][inp.room \notin Rooms => led_states' = led_states]_vars

\* C23: a poll tick on which a brightness read raises, in the debug report
\* (before the lock is taken) or in the entrance handler (under the lock),
\* leaves the loop thread in its loop with running unchanged and the lock
\* not held by the tick (free after a raise under the lock, else as it was),
\* and changes neither the state, the timer handle nor a light.
C23_TickExceptionIsCaught ==
    [][ \A d2, d1 \in Distances : Inserted(d2, d1) =>
        \A dbg \in DebugSamples : \A ldr \in EntranceSamples(d2, d1, dbg) :
          ( /\ _automation_loop(d2, d1, dbg, ldr)
            /\ \/ DebugRaises(dbg)
               \/ EntranceRead(d2, d1, dbg) /\ is_room_dark(ldr).raised )
          => ( /\ loop_pc' = "loop"
               /\ running' = running
               /\ lock' = lock
               /\ ~DebugRaises(dbg) => lock' = "free"
               /\ state' = state
               /\ exit_timer' = exit_timer
               /\ led_states' = led_states )
      ]_vars

\* C23 witness: a tick has just inserted its snapshot and its debug report,
\* still due, raised; the window also holds the snapshot of an earlier tick
C23_Witness ==
    /\ loop_pc = "loop"
    /\ running
    /\ lock = "free"
    /\ debug_due
    /\ Len(last_sensor_events) = 2
    /\ LastEvent.age = 0

\* the application was started and stop() has since been called
Stopped == ~running /\ loop_pc # "none"

\* C24: once stop() has been called the poll loop ends, and from then on no
\* step issues a light-off command or changes the occupancy state.
C24_NothingActsAfterStop ==
    /\ Stopped ~> (loop_pc = "done")
    /\ [][Stopped => (cmd' # "off" /\ state' = state)]_vars

\* C26: for two lists with values, the recommendation is the midpoint of
\* the two medians exactly when bright's 90th percentile is below dark's
\* 10th; otherwise it is dark's 90th percentile plus a margin of dark's
\* standard deviation, at least one hundredth of a second.
C26_MidpointIffNoOverlap ==
    LET b == stats_from_list(inp.baseline)
        o == stats_from_list(inp.occupied)
        r == out.rec
    IN  ( /\ out.done
          /\ inp.f = "recommend_threshold"
          /\ b # NoStats
          /\ o # NoStats )
        => IF b.p90 < o.p10
           THEN /\ r.num * 4 = (b.median2 + o.median2) * r.den
                /\ r.msq_num = 0
           ELSE /\ r.num * 10 = o.p90 * r.den
                /\ r.msq_num >= r.msq_den
                /\ o.var_num >= o.var_den =>
                       r.msq_num * o.var_den = o.var_num * r.msq_den

\* a countdown thread that has not yet ended its function
Counting(t) == t.pc \in {"sleep", "acquire", "locked"}

CountingThreads ==
    (IF Counting(exit_timer) THEN 1 ELSE 0)
    + BagCardinality([t \in {x \in BagToSet(orphans) : Counting(x)} |->
                         orphans[t]])

\* C27: at most one exit countdown is running at any time.
C27_AtMostOneCountdown ==
    CountingThreads <= 1

\* C28: whenever the lock is free, the timer handle references a thread
\* (exit_timer is not None) exactly when the state is EXITING.
C28_HandleIffExiting ==
    lock = "free" => (exit_timer # NoTimer <=> state = "EXITING")

\* the countdown thread is inside its `with self.lock` block
holds_lock(t) == t.pc = "locked"

\* C29: the state and the timer handle change only in a poll tick's locked
\* section (lock free before and after the tick) or in a step of a
\* countdown that holds the lock; and a countdown step that reads the state
\* (the test after a sleep, while running; the test in the with block) is
\* taken by a countdown that holds the lock.
C29_StateAccessUnderLock ==
    [][ /\ (state' # state \/ (exit_timer' = NoTimer) # (exit_timer = NoTimer))
           => \/ lock = "free" /\ lock' = "free" /\ LastEvent'.age = 0
              \/ lock = "timer" /\ \E th \in Threads : TimerFire(th)
        /\ \A th \in Threads :
              ((running /\ TimerWake(th)) \/ TimerFire(th))
              => (holds_lock(th[2]) /\ lock = "timer")
      ]_vars

\* C34: whenever the state is EXITING a countdown is live that has not
\* ended its function: one that sleeps, waits for the lock or holds it, and
\* so will set the state to EMPTY unless the state changes first.
C34_ExitingHasCountdown ==
    state = "EXITING" => CountingThreads >= 1

\* the number of countdown threads at one of these positions
ThreadsAt(pcs) ==
    (IF exit_timer.pc \in pcs THEN 1 ELSE 0)
    + BagCardinality([t \in {x \in BagToSet(orphans) : x.pc \in pcs} |->
                         orphans[t]])

LoopThreads == (IF loop_pc = "loop" THEN 1 ELSE 0) + stopping.old

\* C39: at most one poll-loop thread is alive at any time, also after a
\* stop() followed by a start().
C39_AtMostOnePollLoop ==
    LoopThreads <= 1

\* C32: a tick's EMPTY -> OCCUPIED or OCCUPIED -> EXITING transition has a
\* pair of snapshots in the order of that transition that has not driven a
\* transition before.
C32_MatchedPairDrivesOnce ==
    [][ LET w2 == last_sensor_events'
            f0 == Aligned(driven.flags, last_sensor_events, w2)
        IN  /\ (driven.on /\ state = "EMPTY" /\ state' = "OCCUPIED")
                  => \E i \in 1..(Len(w2) - 1) :
                        EntrancePair(w2, i) /\ ~f0[i + 1]
            /\ (driven.on /\ state = "OCCUPIED" /\ state' = "EXITING")
                  => \E i \in 1..(Len(w2) - 1) :
                        ExitPair(w2, i) /\ ~f0[i + 1]
      ]_vars

\* C38: no adjacent pair of snapshots of a window is in entrance order and
\* in exit order at once; on a window of one pair the two detectors do not
\* both answer true.
C38_OrderDistinguishesDirection ==
    (out.done /\ inp.f = "detect") =>
        /\ \A i \in 1..(Len(inp.window) - 1) :
               ~(EntrancePair(inp.window, i) /\ ExitPair(inp.window, i))
        /\ Len(inp.window) = 2 => ~(out.entrance /\ out.exit)

\* C21: of two calls in a row of set_light with the same known channel and
\* state, the second leaves every channel's stored state as the first left
\* it and returns the same boolean; neither raises.
C21_SetLightIdempotent ==
    (inp.f = "set_light" /\ inp.room \in Rooms) =>
        \A k \in 1..Len(calls) :
            /\ ~calls[k].raised
            /\ calls[k].ret \in {"True", "False"}
            /\ k > 1 => /\ calls[k].post = calls[k - 1].post
                        /\ calls[k].ret = calls[k - 1].ret

\* C21 witness: set_light(c, True) has been called twice on a channel that
\* was off
C21_Witness ==
    /\ inp.f = "set_light"
    /\ inp.room \in Rooms
    /\ inp.st
    /\ Len(calls) = 2
    /\ ~calls[1].pre[inp.room]

\* C22: a call of toggle_light on a known channel flips that channel's
\* stored state, leaves the others unchanged and returns the new state;
\* the second of two calls in a row restores the state before the first.
C22_ToggleFlipsAndReturnsNewState ==
    (inp.f = "toggle_light" /\ inp.room \in Rooms) =>
        \A k \in 1..Len(calls) :
            /\ calls[k].post =
                   [calls[k].pre EXCEPT ![inp.room] = ~calls[k].pre[inp.room]]
            /\ calls[k].ret = PyBool(calls[k].post[inp.room])
            /\ k > 1 => calls[k].post = calls[k - 1].pre

====
